---- MODULE Spec2Model ----
(***************************************************************************)
(* FlowResume: the retry wrapper around the Gemini call (ai_service.py),   *)
(* the analysis operations that funnel through it, the JSON interaction    *)
(* store (db_operations.py) and the PDF helpers (utils.py).                *)
(***************************************************************************)
EXTENDS Integers, Sequences, FiniteSets, TLC

VARIABLES
    caller,        \* "direct", or the analysis operation that called call_gemini
    max_retries,   \* call_gemini's max_retries parameter
    attempt,       \* the loop variable of `for attempt in range(max_retries)`
    pc,            \* call_gemini: "loop", "returned", "raised" ("idle": not called)
    result,        \* what call_gemini returned or raised
    events,        \* the remote requests and time.sleep calls made, in order
    op_pc,         \* the analysis operation: "none", "calling", "returned", "propagated"
    op_result,     \* the string the analysis operation returned
    db_file,       \* the content of DB_FILE on disk
    db_pc,         \* load_db_data: "idle", "loaded", "raised"
    db_data,       \* the value load_db_data returned
    clock,         \* datetime.datetime.now(), in half days
    snapshot,      \* the data object a caller of the store holds
    ret,           \* what the last store operation returned: "none", "None", "True", "False", "raised"
    writes,        \* the number of times save_db_data wrote DB_FILE
    last,          \* the last store operation, its arguments and what it started from
    recorded,      \* the non-empty emails of the completed record_interaction calls
    stale,         \* clean_old_history has saved a snapshot that was not the stored data
    procs,         \* concurrent record_interaction calls: position and local db_data
    pdf_pc,        \* generate_pdf_from_markdown: "idle", "returned"
    pdf_in,        \* the arguments of the last generate_pdf_from_markdown call
    pdf_result,    \* what generate_pdf_from_markdown returned
    pdf_calls,     \* the number of generate_pdf_from_markdown calls
    tmp_files,     \* the number of its temporary files on disk
    renders,       \* the number of pdfkit.from_string calls
    pdf_errors,    \* the number of st.error calls of generate_pdf_from_markdown
    pdf_raised,    \* the call inside its try block that raised, "" if none did
    img_pc,        \* pdf_to_base64_images: "idle", "returned"
    img_in,        \* its arguments: the uploaded file and pages_to_process
    img_result,    \* the list it returned
    img_raised,    \* the call inside its try block that raised, "" if none did
    img_errors,    \* the number of its st.error calls
    img_successes  \* the number of its st.success calls

gvars == <<caller, max_retries, attempt, pc, result, events, op_pc, op_result>>
dbvars == <<db_file, db_pc, db_data>>
logvars == <<clock, snapshot, ret, writes, last, recorded, stale>>
concvars == <<procs>>
imgvars == <<img_pc, img_in, img_result, img_raised, img_errors, img_successes>>
pdfvars == <<pdf_pc, pdf_in, pdf_result, pdf_calls, tmp_files, renders, pdf_errors, pdf_raised,
             imgvars>>
restvars == <<logvars, concvars, pdfvars>>
vars == <<caller, max_retries, attempt, pc, result, events, op_pc, op_result,
          db_file, db_pc, db_data,
          clock, snapshot, ret, writes, last, recorded, stale,
          procs,
          pdf_pc, pdf_in, pdf_result, pdf_calls, tmp_files, renders, pdf_errors,
          pdf_raised,
          img_pc, img_in, img_result, img_raised, img_errors, img_successes>>

(***************************************************************************)
(* Bounds and program constants                                            *)
(***************************************************************************)
MaxRetries == 5

DefaultMaxRetries == 5

StatusRateLimit == 429

StatusBadRequest == 400

(***************************************************************************)
(* Strings                                                                 *)
(***************************************************************************)
\* Python's `sub in s`
Contains(s, sub) ==
    \E i \in 1..(Len(s) - Len(sub) + 1) : SubSeq(s, i, i + Len(sub) - 1) = sub

\* Python's s.startswith(p)
StartsWith(s, p) == Len(s) >= Len(p) /\ SubSeq(s, 1, Len(p)) = p

None == [kind |-> "none", cls |-> "", text |-> ""]

\* a str value
Str(s) == [kind |-> "str", cls |-> "", text |-> s]

\* an exception object of class cls whose str() is msg
Exc(c, msg) == [kind |-> "exc", cls |-> c, text |-> msg]

(***************************************************************************)
(* What model.generate_content can do                                      *)
(***************************************************************************)
Texts == {"Strong match for the role.", "MATCH SCORE: 75%"}

ExpiredText == "400 API key expired. Please renew the API key."

PlainText == "Invalid argument provided."

NoResponse == [kind |-> "none", status |-> 0, text |-> ""]

TextResponse(t) == [kind |-> "response", status |-> 0, text |-> t]

ClientResponseError(s, m) == [kind |-> "client_error", status |-> s, text |-> m]

OtherException(m) == [kind |-> "exception", status |-> 0, text |-> m]

Outcomes ==
    {NoResponse}
    \cup {TextResponse(t) : t \in Texts \cup {""}}
    \cup {ClientResponseError(StatusRateLimit, PlainText)}
    \cup {ClientResponseError(StatusBadRequest, m) : m \in {ExpiredText, PlainText}}
    \cup {ClientResponseError(500, ExpiredText)}
    \cup {OtherException("Connection reset by peer")}

\* What the remote service answered, as the log of events records it.
Observed(r) ==
    CASE r.kind = "response" /\ r.text # "" -> "text"
      [] r.kind = "response" /\ r.text = "" -> "empty"
      [] r.kind = "none" -> "empty"
      [] r.kind = "client_error" /\ r.status = StatusRateLimit -> "rate_limit"
      [] r.kind = "client_error" /\ r.status = StatusBadRequest
            /\ Contains(r.text, "API key expired") -> "credential"
      [] r.kind = "client_error" -> "api_error"
      [] OTHER -> "exception"

Request(a, r) ==
    [ev |-> "request", n |-> a, tag |-> Observed(r), text |-> r.text]

Sleep(secs) == [ev |-> "sleep", n |-> secs, tag |-> "", text |-> ""]

(***************************************************************************)
(* call_gemini                                                             *)
(***************************************************************************)
Sentinel == "Error: Unable to process request after multiple attempts."

EmptyMessage == "Empty or invalid response received from Gemini"

\* the test of line 32 inverted
HasTextInverted(r) == r.kind = "response" /\ r.text = ""

\* `if response and response.text`
HasText(r) == r.kind = "response" /\ r.text # ""

\* `e.response.status_code == 429`
IsRateLimit(e) == e.status = StatusRateLimit

\* the credential test against status 401 in place of 400
IsKeyExpiredWrongStatus(e) == e.status = 401 /\ Contains(e.text, "API key expired")

\* `e.response.status_code == 400 and "API key expired" in str(e)`
IsKeyExpired(e) == e.status = StatusBadRequest /\ Contains(e.text, "API key expired")

\* the last-attempt test off by one
IsLastAttemptOffByOne(a, n) == a = n

\* `attempt == max_retries - 1`
IsLastAttempt(a, n) == a = n - 1

\* a linear delay in place of the exponential one
BackoffLinear(a) == a + 1

\* `2 ** attempt`
Backoff(a) == 2 ^ a

\* the wrapped failure reporting the loop index in place of max_retries
WrappedFailureWrongCount(n, msg) ==
    "Failed to get response from Gemini after " \o ToString(n - 1) \o " attempts: " \o msg

\* f"Failed to get response from Gemini after {max_retries} attempts: {str(e)}"
WrappedFailure(n, msg) ==
    "Failed to get response from Gemini after " \o ToString(n) \o " attempts: " \o msg

\* a loop that runs once more than range(max_retries)
InLoopOnceMore == pc = "loop" /\ attempt <= max_retries

\* `for attempt in range(max_retries)`: the body runs for this attempt
InLoop == pc = "loop" /\ attempt < max_retries

\* response with text: `return response.text`
AttemptSuccess(r) ==
    /\ InLoop
    /\ r.kind \in {"response", "none"}
    /\ HasText(r)
    /\ events' = Append(events, Request(attempt, r))
    /\ result' = Str(r.text)
    /\ pc' = "returned"
    /\ UNCHANGED <<caller, max_retries, attempt, op_pc, op_result>>
    /\ UNCHANGED <<dbvars, restvars>>

\* the `except Exception` handler, lines 50-54, for an exception whose str() is msg
GeneralHandler(r, msg) ==
    IF IsLastAttempt(attempt, max_retries)
    THEN /\ events' = Append(events, Request(attempt, r))
         /\ result' = Exc("Exception", WrappedFailure(max_retries, msg))
         /\ pc' = "raised"
         /\ UNCHANGED attempt
    ELSE /\ events' = events \o <<Request(attempt, r), Sleep(Backoff(attempt))>>
         /\ attempt' = attempt + 1
         /\ UNCHANGED <<pc, result>>

\* no response or no text: `raise Exception("Empty or invalid response ...")`,
\* caught by `except Exception`
AttemptEmpty(r) ==
    /\ InLoop
    /\ r.kind \in {"response", "none"}
    /\ ~HasText(r)
    /\ GeneralHandler(r, EmptyMessage)
    /\ UNCHANGED <<caller, max_retries, op_pc, op_result>>
    /\ UNCHANGED <<dbvars, restvars>>

\* ClientResponseError with status 429: sleep, then the next iteration
AttemptRateLimited(r) ==
    /\ InLoop
    /\ r.kind = "client_error"
    /\ IsRateLimit(r)
    /\ events' = events \o <<Request(attempt, r), Sleep(Backoff(attempt))>>
    /\ attempt' = attempt + 1
    /\ UNCHANGED <<caller, max_retries, pc, result, op_pc, op_result>>
    /\ UNCHANGED <<dbvars, restvars>>

\* ClientResponseError, status 400 with "API key expired": st.error, st.stop()
AttemptKeyExpired(r) ==
    /\ InLoop
    /\ r.kind = "client_error"
    /\ ~IsRateLimit(r)
    /\ IsKeyExpired(r)
    /\ events' = Append(events, Request(attempt, r))
    /\ result' = Exc("StopException", "")
    /\ pc' = "raised"
    /\ UNCHANGED <<caller, max_retries, attempt, op_pc, op_result>>
    /\ UNCHANGED <<dbvars, restvars>>

\* any other ClientResponseError, lines 45-49
AttemptClientError(r) ==
    /\ InLoop
    /\ r.kind = "client_error"
    /\ ~IsRateLimit(r)
    /\ ~IsKeyExpired(r)
    /\ GeneralHandler(r, r.text)
    /\ UNCHANGED <<caller, max_retries, op_pc, op_result>>
    /\ UNCHANGED <<dbvars, restvars>>

\* any other exception out of generate_content, lines 50-54
AttemptException(r) ==
    /\ InLoop
    /\ r.kind = "exception"
    /\ GeneralHandler(r, r.text)
    /\ UNCHANGED <<caller, max_retries, op_pc, op_result>>
    /\ UNCHANGED <<dbvars, restvars>>

\* range(max_retries) is used up: line 56
LoopExhausted ==
    /\ pc = "loop"
    /\ attempt >= max_retries
    /\ result' = Str(Sentinel)
    /\ pc' = "returned"
    /\ UNCHANGED <<caller, max_retries, attempt, events, op_pc, op_result>>
    /\ UNCHANGED <<dbvars, restvars>>

(***************************************************************************)
(* The analysis operations                                                 *)
(***************************************************************************)
Operations ==
    {"analyze_resume", "get_match_score", "optimize_resume", "check_grammar",
     "keyword_density", "suggest_roles", "section_check", "generate_cover_letter",
     "salary_insights", "skill_gap_analysis", "generate_interview_questions",
     "generate_branding_statement"}

Doing(op) ==
    CASE op = "analyze_resume" -> "analyzing resume"
      [] op = "get_match_score" -> "calculating match score"
      [] op = "optimize_resume" -> "optimizing resume"
      [] op = "check_grammar" -> "checking grammar"
      [] op = "keyword_density" -> "analyzing keyword density"
      [] op = "suggest_roles" -> "suggesting roles"
      [] op = "section_check" -> "checking sections"
      [] op = "generate_cover_letter" -> "generating cover letter"
      [] op = "salary_insights" -> "generating salary insights"
      [] op = "skill_gap_analysis" -> "performing skill gap analysis"
      [] op = "generate_interview_questions" -> "generating interview questions"
      [] op = "generate_branding_statement" -> "generating branding statement"

\* an error string that does not name the operation
ErrorStringUnnamed(op, msg) == "Error: " \o msg

\* f"Error analyzing resume: {str(e)}" and its eleven siblings
ErrorString(op, msg) == "Error " \o Doing(op) \o ": " \o msg

\* a handler that catches the client error class only
CaughtAsClientError(e) == e.cls = "ClientResponseError"

\* `except Exception as e`: StopException derives from BaseException only
CaughtAsException(e) == e.cls = "Exception"

\* `return call_gemini(...)` when call_gemini returned
OpReturn ==
    /\ op_pc = "calling"
    /\ pc = "returned"
    /\ op_result' = result
    /\ op_pc' = "returned"
    /\ UNCHANGED <<caller, max_retries, attempt, pc, result, events>>
    /\ UNCHANGED <<dbvars, restvars>>

\* `except Exception as e: return f"Error ...: {str(e)}"`
OpCatch ==
    /\ op_pc = "calling"
    /\ pc = "raised"
    /\ CaughtAsException(result)
    /\ op_result' = Str(ErrorString(caller, result.text))
    /\ op_pc' = "returned"
    /\ UNCHANGED <<caller, max_retries, attempt, pc, result, events>>
    /\ UNCHANGED <<dbvars, restvars>>

\* what `except Exception` does not catch leaves the operation
OpPropagate ==
    /\ op_pc = "calling"
    /\ pc = "raised"
    /\ ~CaughtAsException(result)
    /\ op_pc' = "propagated"
    /\ UNCHANGED <<caller, max_retries, attempt, pc, result, events, op_result>>
    /\ UNCHANGED <<dbvars, restvars>>

(***************************************************************************)
(* The interaction store: JSON values and the file DB_FILE                 *)
(***************************************************************************)
\* JSON values as json.load yields them, tagged with their Python type
JNull == [t |-> "null", v |-> 0]

JNum(n) == [t |-> "int", v |-> n]

JStr(s) == [t |-> "str", v |-> s]

JList(s) == [t |-> "list", v |-> s]

JDict(f) == [t |-> "dict", v |-> f]

\* {"users": [], "history": []}
EmptyDb == JDict([k \in {"users", "history"} |-> JList(<<>>)])

\* DB_FILE: absent, present but not readable, text that is not JSON, or the
\* text of a JSON value
FileMissing == [state |-> "missing", body |-> JNull]

FileUnreadable == [state |-> "unreadable", body |-> JNull]

FileGarbage(s) == [state |-> "garbage", body |-> JStr(s)]

FileJson(val) == [state |-> "json", body |-> val]

UserRecord(name, email) ==
    JDict([k \in {"name", "email"} |-> IF k = "name" THEN JStr(name) ELSE JStr(email)])

\* values a member of the stored object may have
MemberValues ==
    {JList(<<>>), JList(<<UserRecord("Asha", "asha@example.com")>>),
     JNum(1), JStr("x"), JNull, JDict(<<>>)}

\* objects with any of the keys "users", "history", "foo"
StoredObjects ==
    UNION {
        [K -> MemberValues] : K \in SUBSET {"users", "history"}
    }

WithFoo(f) == [k \in DOMAIN f \cup {"foo"} |-> IF k = "foo" THEN JNum(1) ELSE f[k]]

DbFiles ==
    {FileMissing, FileUnreadable, FileGarbage("not json{"), FileGarbage("")}
    \cup {FileJson(val) : val \in {JNull, JNum(1), JStr("users history"), JList(<<>>),
                                JList(<<EmptyDb>>)}}
    \cup {FileJson(JDict(f)) : f \in StoredObjects}
    \cup {FileJson(JDict(WithFoo(f))) : f \in StoredObjects}

\* os.path.exists(DB_FILE)
Exists(f) == f.state # "missing"

Returned(val) == [ok |-> TRUE, cls |-> "", val |-> val]

Raised(c) == [ok |-> FALSE, cls |-> c, val |-> JNull]

\* `with open(DB_FILE, "r") as f: data = json.load(f)`
OpenAndParse(f) ==
    CASE f.state = "unreadable" -> Raised("IOError")
      [] f.state = "garbage" -> Raised("JSONDecodeError")
      [] OTHER -> Returned(f.body)

\* a shape test that forgets the "history" key
IsExpectedFormatUsersOnly(data) == data.t = "dict" /\ "users" \in DOMAIN data.v

\* `isinstance(data, dict) and "users" in data and "history" in data`
IsExpectedFormat(data) ==
    /\ data.t = "dict"
    /\ "users" \in DOMAIN data.v
    /\ "history" \in DOMAIN data.v

\* `except json.JSONDecodeError`, `except IOError`
HandledByLoad(c) == c \in {"JSONDecodeError", "IOError"}

\* load_db_data: the value it returns, or the exception that leaves it
LoadDbData(f) ==
    IF ~Exists(f)
    THEN Returned(EmptyDb)
    ELSE LET r == OpenAndParse(f)
         IN  IF r.ok
             THEN IF IsExpectedFormat(r.val) THEN Returned(r.val) ELSE Returned(EmptyDb)
             ELSE IF HandledByLoad(r.cls) THEN Returned(EmptyDb) ELSE r

\* a call of load_db_data
Load ==
    /\ db_pc = "idle"
    /\ LET r == LoadDbData(db_file)
       IN  /\ db_pc' = IF r.ok THEN "loaded" ELSE "raised"
           /\ db_data' = r.val
    /\ UNCHANGED db_file
    /\ UNCHANGED <<gvars, restvars>>

(***************************************************************************)
(* Time stamps: datetime.isoformat and datetime.fromisoformat              *)
(***************************************************************************)
HalfDaysPerDay == 2

DefaultDaysThreshold == 100

JobExcerptLimit == 200

ResponseExcerptLimit == 500

\* the text of the time h half days after day 0
IsoFormat(h) ==
    "day " \o ToString(h \div HalfDaysPerDay)
           \o (IF h % HalfDaysPerDay = 0 THEN "T00:00:00" ELSE "T12:00:00")

DigitVal(c) ==
    CASE c = "0" -> 0 [] c = "1" -> 1 [] c = "2" -> 2 [] c = "3" -> 3 [] c = "4" -> 4
      [] c = "5" -> 5 [] c = "6" -> 6 [] c = "7" -> 7 [] c = "8" -> 8 [] c = "9" -> 9
      [] OTHER -> -1

RECURSIVE NatOf(_)
NatOf(s) ==
    IF Len(s) = 0
    THEN 0
    ELSE NatOf(SubSeq(s, 1, Len(s) - 1)) * 10 + DigitVal(SubSeq(s, Len(s), Len(s)))

\* fromisoformat accepts s (it raises ValueError otherwise)
Parsable(s) ==
    /\ Len(s) >= 14
    /\ SubSeq(s, 1, 4) = "day "
    /\ SubSeq(s, Len(s) - 8, Len(s)) \in {"T00:00:00", "T12:00:00"}
    /\ \A i \in 5..(Len(s) - 9) : DigitVal(SubSeq(s, i, i)) >= 0

\* datetime.fromisoformat(s), in half days
FromIsoFormat(s) ==
    NatOf(SubSeq(s, 5, Len(s) - 9)) * HalfDaysPerDay
        + (IF SubSeq(s, Len(s) - 8, Len(s)) = "T12:00:00" THEN 1 ELSE 0)

\* (current_time - dt_obj).days: whole days, rounded down
DaysBetween(now, then) == (now - then) \div HalfDaysPerDay

(***************************************************************************)
(* save_db_data and record_interaction                                     *)
(***************************************************************************)
\* Python's truth value of a JSON value
Truthy(x) ==
    CASE x.t = "null" -> FALSE
      [] x.t = "str" -> x.v # ""
      [] x.t = "int" -> x.v # 0
      [] x.t = "list" -> x.v # <<>>
      [] OTHER -> DOMAIN x.v # {}

\* dict.get(key)
Get(d, key) == IF key \in DOMAIN d.v THEN d.v[key] ELSE JNull

\* an excerpt that cuts one character too late
ExcerptOffByOne(text, limit) ==
    IF Truthy(text) /\ Len(text.v) > limit
    THEN JStr(SubSeq(text.v, 1, limit + 1) \o "...")
    ELSE text

\* `text[:limit] + "..." if text and len(text) > limit else text`
Excerpt(text, limit) ==
    IF Truthy(text) /\ Len(text.v) > limit
    THEN JStr(SubSeq(text.v, 1, limit) \o "...")
    ELSE text

EntryKeys ==
    {"timestamp", "name", "email", "analysis_type", "job_description_excerpt",
     "ai_response_excerpt"}

\* the history_entry of lines 61-68
HistoryEntry(now, name, email, type, jd, resp) ==
    JDict([k \in EntryKeys |->
        CASE k = "timestamp" -> JStr(IsoFormat(now))
          [] k = "name" -> name
          [] k = "email" -> email
          [] k = "analysis_type" -> type
          [] k = "job_description_excerpt" -> Excerpt(jd, JobExcerptLimit)
          [] OTHER -> Excerpt(resp, ResponseExcerptLimit)])

\* a loop that looks at the first user only
ScanListFirstOnly(us, email) ==
    IF us = <<>> THEN "absent"
    ELSE IF Head(us).t # "dict" THEN "raise"
    ELSE IF Get(Head(us), "email") = email THEN "found"
    ELSE "absent"

\* the loop of lines 53-56 over db_data["users"]: "found", "absent", or
\* "raise" when the collection or the user met is not what the loop needs
RECURSIVE ScanList(_, _)
ScanList(us, email) ==
    IF us = <<>> THEN "absent"
    ELSE IF Head(us).t # "dict" THEN "raise"
    ELSE IF Get(Head(us), "email") = email THEN "found"
    ELSE ScanList(Tail(us), email)

UsersScan(users, email) ==
    CASE users.t = "list" -> ScanList(users.v, email)
      [] users.t = "str" -> IF users.v = "" THEN "absent" ELSE "raise"
      [] users.t = "dict" -> IF DOMAIN users.v = {} THEN "absent" ELSE "raise"
      [] OTHER -> "raise"

\* `{"name": user_name, "email": user_email}`
NewUser(name, email) == JDict([k \in {"name", "email"} |-> IF k = "name" THEN name ELSE email])

\* a user test that forgets to look for the email
AddsUserAlways(users, email) == Truthy(email)

\* `if user_email and not user_exists`
AddsUser(users, email) == Truthy(email) /\ UsersScan(users, email) = "absent"

\* an append that puts the new entry first
AppendedFirst(list, x) == JList(<<x>> \o list.v)

\* list.append
Appended(list, x) == JList(Append(list.v, x))

\* lines 51-69 on the loaded db_data: the object to save, or the exception
RecordInto(data, now, name, email, type, jd, resp) ==
    LET users == data.v["users"]
        history == data.v["history"]
    IN  IF UsersScan(users, email) = "raise" THEN Raised("TypeError")
        ELSE IF AddsUser(users, email) /\ users.t # "list" THEN Raised("AttributeError")
        ELSE IF history.t # "list" THEN Raised("AttributeError")
        ELSE Returned(JDict([k \in DOMAIN data.v |->
                CASE k = "users" ->
                        IF AddsUser(users, email)
                        THEN Appended(users, NewUser(name, email))
                        ELSE users
                  [] k = "history" ->
                        Appended(history, HistoryEntry(now, name, email, type, jd, resp))
                  [] OTHER -> data.v[k]]))

\* a save that writes the empty structure
SavedEmpty(data) == FileJson(EmptyDb)

\* save_db_data: json.dump into DB_FILE opened with "w"
SaveDbData(data) == FileJson(data)

NoOp ==
    [op |-> "none", file |-> FileMissing, data |-> JNull, email |-> JNull,
     jd |-> JNull, resp |-> JNull, threshold |-> 0, now |-> 0]

\* record_interaction(user_name, user_email, analysis_type, job_description, ai_response)
RecordInteraction(name, email, type, jd, resp) ==
    LET loaded == LoadDbData(db_file).val
        out == RecordInto(loaded, clock, name, email, type, jd, resp)
    IN  /\ last' = [op |-> "record", file |-> db_file, data |-> loaded, email |-> email,
                    jd |-> jd, resp |-> resp, threshold |-> 0, now |-> clock]
        /\ IF out.ok
           THEN /\ db_file' = SaveDbData(out.val)
                /\ writes' = writes + 1
                /\ ret' = "None"
                /\ recorded' = recorded \cup (IF Truthy(email) THEN {email.v} ELSE {})
           ELSE /\ ret' = "raised"
                /\ UNCHANGED <<db_file, writes, recorded>>
        /\ UNCHANGED <<db_pc, db_data, clock, snapshot, stale>>
        /\ UNCHANGED <<gvars, concvars, pdfvars>>

(***************************************************************************)
(* clean_old_history                                                       *)
(***************************************************************************)
\* a time stamp with a UTC offset: fromisoformat yields an aware datetime
IsAware(s) ==
    /\ Len(s) > 6
    /\ SubSeq(s, Len(s) - 5, Len(s)) = "+00:00"
    /\ Parsable(SubSeq(s, 1, Len(s) - 6))

\* `"timestamp" in entry` for a dict, a str and a list
InEntry(entry) ==
    CASE entry.t = "dict" -> "timestamp" \in DOMAIN entry.v
      [] entry.t = "str" -> Contains(entry.v, "timestamp")
      [] OTHER -> \E i \in 1..Len(entry.v) : entry.v[i] = JStr("timestamp")

\* an age test that prunes at the threshold already
WithinThresholdStrict(now, then, threshold) == DaysBetween(now, then) < threshold

\* `time_difference.days <= days_threshold`
WithinThreshold(now, then, threshold) == DaysBetween(now, then) <= threshold

\* the body of the loop of lines 82-102 for one entry: "keep" (appended to
\* cleaned_history), "old" (left out, cleanup_occurred set) or "drop" (left
\* out by the TypeError handler)
EntryFate(entry, now, threshold) ==
    IF entry.t \in {"int", "null"} THEN "drop"
    ELSE IF ~InEntry(entry) THEN "keep"
    ELSE IF entry.t # "dict" THEN "drop"
    ELSE LET ts == entry.v["timestamp"]
         IN  IF ts.t # "str" THEN "drop"
             ELSE IF IsAware(ts.v) THEN "drop"
             ELSE IF ~Parsable(ts.v) THEN "keep"
             ELSE IF WithinThreshold(now, FromIsoFormat(ts.v), threshold) THEN "keep"
             ELSE "old"

\* cleaned_history after the loop
CleanedHistory(h, now, threshold) ==
    SelectSeq(h, LAMBDA e : EntryFate(e, now, threshold) = "keep")

\* cleanup_occurred after the loop
CleanupOccurred(h, now, threshold) ==
    \E i \in 1..Len(h) : EntryFate(h[i], now, threshold) = "old"

\* a test that saves whatever the loop found
SavesAlways(h, now, threshold) == TRUE

\* a test that saves whenever the loop left an entry out
SavesOnAnyRemoval(h, now, threshold) ==
    Len(CleanedHistory(h, now, threshold)) < Len(h)

\* `if cleanup_occurred:`
Saves(h, now, threshold) == CleanupOccurred(h, now, threshold)

\* an assignment that is never made
WithHistoryUnchanged(data, h) == data

\* `db_data_to_clean["history"] = cleaned_history`
WithHistory(data, h) ==
    JDict([k \in DOMAIN data.v |-> IF k = "history" THEN JList(h) ELSE data.v[k]])

\* clean_old_history(db_data_to_clean, days_threshold), called with the
\* object the caller holds, whose "history" is a list
CleanOldHistory(threshold) ==
    /\ snapshot.t = "dict"
    /\ "history" \in DOMAIN snapshot.v
    /\ snapshot.v["history"].t = "list"
    /\ LET h == snapshot.v["history"].v
           cleaned == WithHistory(snapshot, CleanedHistory(h, clock, threshold))
       IN  /\ last' = [op |-> "clean", file |-> db_file, data |-> snapshot, email |-> JNull,
                       jd |-> JNull, resp |-> JNull, threshold |-> threshold, now |-> clock]
           /\ IF Saves(h, clock, threshold)
              THEN /\ snapshot' = cleaned
                   /\ db_file' = SaveDbData(cleaned)
                   /\ writes' = writes + 1
                   /\ stale' = (stale \/ LoadDbData(db_file).val # snapshot)
              ELSE UNCHANGED <<snapshot, db_file, writes, stale>>
           /\ ret' = IF CleanupOccurred(h, clock, threshold) THEN "True" ELSE "False"
    /\ UNCHANGED <<db_pc, db_data, clock, recorded>>
    /\ UNCHANGED <<gvars, concvars, pdfvars>>

\* the caller's `data = load_db_data()`
TakeSnapshot ==
    /\ snapshot' = LoadDbData(db_file).val
    /\ snapshot' # snapshot
    /\ UNCHANGED <<db_file, db_pc, db_data, clock, ret, writes, last, recorded, stale>>
    /\ UNCHANGED <<gvars, concvars, pdfvars>>

\* time passes between two calls
Tick(d) ==
    /\ clock' = clock + d
    /\ UNCHANGED <<db_file, db_pc, db_data, snapshot, ret, writes, last, recorded, stale>>
    /\ UNCHANGED <<gvars, concvars, pdfvars>>

(***************************************************************************)
(* generate_pdf_from_markdown                                              *)
(***************************************************************************)
NoCall == [content |-> "", title |-> "", path |-> ""]

\* markdown.markdown for the texts used here: a heading line, or a paragraph
Markdown(text) ==
    IF StartsWith(text, "# ")
    THEN "<h1>" \o SubSeq(text, 3, Len(text)) \o "</h1>"
    ELSE IF text = "" THEN "" ELSE "<p>" \o text \o "</p>"

\* full_html: the template around the title and the converted content
FullHtml(content, title) ==
    "<html><title>" \o title \o "</title><h1>" \o title \o "</h1>"
        \o Markdown(content) \o "</html>"

\* a renderer whose output is lost
RenderedNothing(html) == JNull

\* the bytes wkhtmltopdf writes for a page
Rendered(html) == JStr("%PDF " \o html)

\* a call that has begun: its arguments and the WKHTMLTOPDF_PATH in force
PdfCalled(content, title, path) ==
    /\ pdf_in' = [content |-> content, title |-> title, path |-> path]
    /\ pdf_calls' = pdf_calls + 1
    /\ pdf_pc' = "returned"
    /\ UNCHANGED <<gvars, dbvars, logvars, concvars, imgvars>>

\* `except Exception as e: st.error(...); return None`
PdfHandled ==
    /\ pdf_errors' = pdf_errors + 1
    /\ pdf_result' = JNull

\* a cleanup that forgets the file
UnlinkedNever(n) == n

\* `os.unlink(tmp_pdf.name)`: one temporary file fewer on disk
Unlinked(n) == n - 1

\* the renderer writes the file: lines 162-175
PdfSucceeds(content, title, path) ==
    /\ PdfCalled(content, title, path)
    /\ renders' = renders + 1
    /\ tmp_files' = Unlinked(tmp_files + 1)
    /\ pdf_result' = Rendered(FullHtml(content, title))
    /\ pdf_raised' = ""
    /\ UNCHANGED pdf_errors

\* pdfkit.configuration raises (no executable at WKHTMLTOPDF_PATH): line 165
PdfConfigFails(content, title, path) ==
    /\ path # ""
    /\ PdfCalled(content, title, path)
    /\ PdfHandled
    /\ pdf_raised' = "pdfkit.configuration"
    /\ UNCHANGED <<renders, tmp_files>>

\* NamedTemporaryFile raises (no room, no permission): line 167
PdfTempFails(content, title, path) ==
    /\ PdfCalled(content, title, path)
    /\ PdfHandled
    /\ pdf_raised' = "NamedTemporaryFile"
    /\ UNCHANGED <<renders, tmp_files>>

\* pdfkit.from_string raises (wkhtmltopdf missing or failing): lines 168-171;
\* the with block closes the file, kept because of delete=False, and the
\* handler of line 176 is entered past the os.unlink of line 174
PdfRenderFails(content, title, path) ==
    /\ PdfCalled(content, title, path)
    /\ PdfHandled
    /\ pdf_raised' = "pdfkit.from_string"
    /\ renders' = renders + 1
    /\ tmp_files' = tmp_files + 1

(***************************************************************************)
(* pdf_to_base64_images                                                    *)
(***************************************************************************)
\* uploaded_file: None, or a file whose PDF has these pages
NoFile == [given |-> FALSE, pages |-> <<>>]

Upload(pages) == [given |-> TRUE, pages |-> pages]

\* image.save(img_byte_arr, format='JPEG', optimize=True, quality=85)
Jpeg(page) == "JFIF(" \o page \o ")"

\* base64.b64encode(img_byte_arr).decode('utf-8')
B64(bytes) == "b64:" \o bytes

\* `{"mime_type": "image/jpeg", "data": encoded_image}`
Part(page) == [mime_type |-> "image/jpeg", data |-> B64(Jpeg(page))]

\* a test that lets one page too many through
BreaksLate(i, pages_to_process) == i > pages_to_process

\* `if i >= pages_to_process: break`
Breaks(i, pages_to_process) == i >= pages_to_process

\* the loop of lines 31-46 from index i on: images_parts when it ends
RECURSIVE LoopFrom(_, _, _, _)
LoopFrom(i, images, pages_to_process, parts) ==
    IF i >= Len(images) \/ Breaks(i, pages_to_process)
    THEN parts
    ELSE LoopFrom(i + 1, images, pages_to_process, Append(parts, Part(images[i + 1])))

\* a call that has begun
ImgCalled(file, pages_to_process) ==
    /\ img_pc = "idle"
    /\ img_in' = [file |-> file, pages |-> pages_to_process]
    /\ img_pc' = "returned"
    /\ UNCHANGED <<gvars, dbvars, logvars, concvars>>
    /\ UNCHANGED <<pdf_pc, pdf_in, pdf_result, pdf_calls, tmp_files, renders, pdf_errors,
                   pdf_raised>>

\* `st.error(...); return []`
ImgFailed(what) ==
    /\ img_raised' = what
    /\ img_errors' = img_errors + 1
    /\ img_result' = <<>>
    /\ UNCHANGED img_successes

\* lines 18-20: no file
ImgNoFile(pages_to_process) ==
    /\ ImgCalled(NoFile, pages_to_process)
    /\ ImgFailed("")

\* uploaded_file.read() raises: line 24
ImgReadFails(file, pages_to_process) ==
    /\ file.given
    /\ ImgCalled(file, pages_to_process)
    /\ ImgFailed("uploaded_file.read")

\* pdf2image.convert_from_bytes raises (Poppler missing, or a page of the
\* document that cannot be converted): lines 26-29
ImgConvertFails(file, pages_to_process) ==
    /\ file.given
    /\ ImgCalled(file, pages_to_process)
    /\ ImgFailed("pdf2image.convert_from_bytes")

\* image.save raises for the page of index i, which the loop reaches: line 36;
\* the parts appended before it are given up
ImgSaveFails(file, pages_to_process, i) ==
    /\ file.given
    /\ i < Len(file.pages)
    /\ \A j \in 0..i : ~Breaks(j, pages_to_process)
    /\ ImgCalled(file, pages_to_process)
    /\ ImgFailed("image.save")

\* lines 22-52 with nothing raised
ImgSucceeds(file, pages_to_process) ==
    /\ file.given
    /\ ImgCalled(file, pages_to_process)
    /\ img_result' = LoopFrom(0, file.pages, pages_to_process, <<>>)
    /\ img_raised' = ""
    /\ img_successes' = img_successes + 1
    /\ UNCHANGED img_errors

(***************************************************************************)
(* Specification of the wrapper and the analysis operations                *)
(***************************************************************************)
LogIdle ==
    /\ clock = 0
    /\ snapshot = JNull
    /\ ret = "none"
    /\ writes = 0
    /\ last = NoOp
    /\ recorded = {}
    /\ stale = FALSE

ConcIdle == procs = <<>>

ImgIdle ==
    /\ img_pc = "idle"
    /\ img_in = [file |-> NoFile, pages |-> 0]
    /\ img_result = <<>>
    /\ img_raised = ""
    /\ img_errors = 0
    /\ img_successes = 0

PdfIdle ==
    /\ pdf_pc = "idle"
    /\ pdf_in = NoCall
    /\ pdf_result = JNull
    /\ pdf_calls = 0
    /\ tmp_files = 0
    /\ renders = 0
    /\ pdf_errors = 0
    /\ pdf_raised = ""
    /\ ImgIdle

StoreIdle ==
    /\ db_file = FileMissing
    /\ db_pc = "idle"
    /\ db_data = JNull
    /\ LogIdle
    /\ ConcIdle
    /\ PdfIdle

Init ==
    /\ caller \in {"direct"} \cup Operations
    /\ max_retries \in IF caller = "direct" THEN (-1)..MaxRetries ELSE {DefaultMaxRetries}
    /\ attempt = 0
    /\ pc = "loop"
    /\ result = None
    /\ events = <<>>
    /\ op_pc = IF caller = "direct" THEN "none" ELSE "calling"
    /\ op_result = None
    /\ StoreIdle

Next ==
    \/ \E r \in Outcomes : AttemptSuccess(r)
    \/ \E r \in Outcomes : AttemptEmpty(r)
    \/ \E r \in Outcomes : AttemptRateLimited(r)
    \/ \E r \in Outcomes : AttemptKeyExpired(r)
    \/ \E r \in Outcomes : AttemptClientError(r)
    \/ \E r \in Outcomes : AttemptException(r)
    \/ LoopExhausted
    \/ OpReturn
    \/ OpCatch
    \/ OpPropagate

Spec == Init /\ [][Next]_vars

\* the calls run on: every remote request returns and no step is left undone
SpecLive == Spec /\ WF_vars(Next)

(***************************************************************************)
(* Specification of the interaction store                                  *)
(***************************************************************************)
WrapperIdle ==
    /\ caller = "direct"
    /\ max_retries = DefaultMaxRetries
    /\ attempt = 0
    /\ pc = "idle"
    /\ result = None
    /\ events = <<>>
    /\ op_pc = "none"
    /\ op_result = None

InitStore ==
    /\ db_file \in DbFiles
    /\ db_pc = "idle"
    /\ db_data = JNull
    /\ WrapperIdle
    /\ LogIdle
    /\ ConcIdle
    /\ PdfIdle

NextStore == Load

SpecStore == InitStore /\ [][NextStore]_vars

(***************************************************************************)
(* Specification of one call of record_interaction                         *)
(***************************************************************************)
\* a text of n characters, no two neighbours alike
RECURSIVE TextFrom(_, _)
TextFrom(a, b) ==
    IF a > b THEN ""
    ELSE IF a = b THEN ToString(a % 10)
    ELSE TextFrom(a, (a + b) \div 2) \o TextFrom((a + b) \div 2 + 1, b)

Text(n) == TextFrom(1, n)

AnalysisType == JStr("Resume Analysis")

\* the user_name and user_email a page passes
UserInputs ==
    {<<JStr("Asha"), JStr("asha@example.com")>>, <<JStr("Ben"), JStr("ben@example.com")>>,
     <<JStr("Guest"), JStr("")>>, <<JNull, JNull>>, <<JNull, JStr("cy@example.com")>>}

\* the job_description and ai_response a page passes
TextInputs ==
    {<<JNull, JNull>>, <<JStr(""), JStr("")>>, <<JStr(Text(5)), JStr(Text(5))>>,
     <<JStr(Text(200)), JStr(Text(500))>>, <<JStr(Text(201)), JStr(Text(501))>>,
     <<JStr(Text(1000)), JStr(Text(203))>>}

\* an entry written by an earlier call, and entries json.load can also yield
EarlierEntry ==
    HistoryEntry(1, JStr("Ben"), JStr("ben@example.com"), AnalysisType, JStr("jd"), JStr("ok"))

UserLists ==
    {<<>>, <<UserRecord("Asha", "asha@example.com")>>,
     <<UserRecord("Ben", "ben@example.com"), UserRecord("Asha", "asha@example.com")>>,
     <<JDict([k \in {"name"} |-> JStr("Dee")])>>}

HistoryLists == {<<>>, <<EarlierEntry>>, <<JNum(7), EarlierEntry>>}

RecordStores ==
    DbFiles \cup
    {FileJson(JDict([k \in {"users", "history"} |->
                        IF k = "users" THEN JList(us) ELSE JList(hs)])) :
        us \in UserLists, hs \in HistoryLists}

InitRecord ==
    /\ db_file \in RecordStores
    /\ db_pc = "idle"
    /\ db_data = JNull
    /\ WrapperIdle
    /\ clock \in {0, 3}
    /\ snapshot = JNull
    /\ ret = "none"
    /\ writes = 0
    /\ last = NoOp
    /\ recorded = {}
    /\ stale = FALSE
    /\ ConcIdle
    /\ PdfIdle

RecordOnce ==
    \E u \in UserInputs, t \in TextInputs :
        /\ ret = "none"
        /\ RecordInteraction(u[1], u[2], AnalysisType, t[1], t[2])

NextRecord == RecordOnce

SpecRecord == InitRecord /\ [][NextRecord]_vars

(***************************************************************************)
(* Specification of the log: calls of record_interaction and               *)
(* clean_old_history one after the other, from an empty or missing store   *)
(***************************************************************************)
MaxOps == 3

MaxTicks == 2

\* 101 days, in half days
TickStep == 202

LogUsers ==
    {<<JStr("Asha"), JStr("asha@example.com")>>, <<JStr("Ben"), JStr("ben@example.com")>>,
     <<JStr("Guest"), JStr("")>>}

InitLog ==
    /\ db_file \in {FileMissing, FileJson(EmptyDb)}
    /\ db_pc = "idle"
    /\ db_data = JNull
    /\ WrapperIdle
    /\ LogIdle
    /\ ConcIdle
    /\ PdfIdle

LogRecord ==
    \E u \in LogUsers :
        /\ writes < MaxOps
        /\ RecordInteraction(u[1], u[2], AnalysisType, JStr("jd"), JStr("ok"))

LogClean == CleanOldHistory(DefaultDaysThreshold)

LogTick ==
    /\ clock < MaxTicks * TickStep
    /\ Tick(TickStep)

NextLog ==
    \/ LogRecord
    \/ TakeSnapshot
    \/ LogClean
    \/ LogTick

SpecLog == InitLog /\ [][NextLog]_vars

(***************************************************************************)
(* Specification of one call of clean_old_history                          *)
(***************************************************************************)
MaxHistory == 3

\* datetime.datetime.now() at the call: day 150, midnight
PruneNow == 300

Thresholds == {DefaultDaysThreshold, 0}

EntryAt(ts) ==
    JDict([k \in {"timestamp", "name"} |-> IF k = "timestamp" THEN ts ELSE JStr("Ben")])

\* the time stamp written h half days before the call
Ago(h) == JStr(IsoFormat(PruneNow - h))

\* history entries json.load can yield: records 1 day, 100 days, 100 days
\* 12 hours and 101 days old, a record stamped with a UTC offset, records
\* without a usable time stamp, and values that are not records
EntryPool ==
    {EntryAt(Ago(HalfDaysPerDay)),
     EntryAt(Ago(DefaultDaysThreshold * HalfDaysPerDay)),
     EntryAt(Ago(DefaultDaysThreshold * HalfDaysPerDay + 1)),
     EntryAt(Ago((DefaultDaysThreshold + 1) * HalfDaysPerDay)),
     EntryAt(JStr(IsoFormat(PruneNow - HalfDaysPerDay) \o "+00:00")),
     JDict([k \in {"name"} |-> JStr("Ben")]),
     EntryAt(JStr("yesterday")), EntryAt(JStr("")),
     EntryAt(JNum(1700000000)), EntryAt(JNull),
     JNum(7), JNull, JStr("note"), JStr("timestamp lost"),
     JList(<<>>), JList(<<JStr("timestamp")>>)}

Histories == UNION {[1..n -> EntryPool] : n \in 0..MaxHistory}

StoreWith(h) ==
    JDict([k \in {"users", "history"} |->
            IF k = "users" THEN JList(<<UserRecord("Ben", "ben@example.com")>>) ELSE JList(h)])

InitPrune ==
    /\ snapshot \in {StoreWith(h) : h \in Histories}
    /\ db_file = FileJson(snapshot)
    /\ db_pc = "idle"
    /\ db_data = JNull
    /\ WrapperIdle
    /\ clock = PruneNow
    /\ ret = "none"
    /\ writes = 0
    /\ last = NoOp
    /\ recorded = {}
    /\ stale = FALSE
    /\ ConcIdle
    /\ PdfIdle

PruneOnce ==
    \E threshold \in Thresholds :
        /\ ret = "none"
        /\ CleanOldHistory(threshold)

NextPrune == PruneOnce

SpecPrune == InitPrune /\ [][NextPrune]_vars

(***************************************************************************)
(* Specification of two concurrent calls of record_interaction             *)
(***************************************************************************)
Writers == {1, 2}

\* the analysis_type each writer passes
WriterType(w) == IF w = 1 THEN JStr("ATS Check") ELSE JStr("Cover Letter")

ConcStores ==
    {FileMissing, FileJson(EmptyDb),
     FileJson(JDict([k \in {"users", "history"} |->
                IF k = "users" THEN JList(<<UserRecord("Ben", "ben@example.com")>>)
                ELSE JList(<<EarlierEntry>>)]))}

\* a load that forgets what the file holds
LocalCopyEmpty(f) == EmptyDb

\* `db_data = load_db_data()`: the writer's own copy of the store
LocalCopy(f) == LoadDbData(f).val

\* line 49 of one writer; base is the number of saves made before it
RecLoad(w) ==
    /\ procs[w].pc = "start"
    /\ procs' = [procs EXCEPT ![w].pc = "loaded", ![w].local = LocalCopy(db_file),
                               ![w].base = writes]
    /\ UNCHANGED <<dbvars, logvars, pdfvars, gvars>>

\* lines 51-70 of one writer: modify the copy and write the whole file
RecSave(w) ==
    /\ procs[w].pc = "loaded"
    /\ LET u == procs[w].user
           out == RecordInto(procs[w].local, clock, u[1], u[2], WriterType(w),
                             JStr("jd"), JStr("ok"))
       IN  /\ out.ok
           /\ db_file' = SaveDbData(out.val)
           /\ procs' = [procs EXCEPT ![w].pc = "done", ![w].local = out.val]
           /\ recorded' = recorded \cup (IF Truthy(u[2]) THEN {u[2].v} ELSE {})
    /\ writes' = writes + 1
    /\ UNCHANGED <<db_pc, db_data, clock, snapshot, ret, last, stale>>
    /\ UNCHANGED <<gvars, pdfvars>>

InitConc ==
    /\ db_file \in ConcStores
    /\ db_pc = "idle"
    /\ db_data = JNull
    /\ WrapperIdle
    /\ clock = 0
    /\ snapshot = JNull
    /\ ret = "none"
    /\ writes = 0
    /\ last = [NoOp EXCEPT !.file = db_file]
    /\ recorded = {}
    /\ stale = FALSE
    /\ procs \in [Writers -> {[pc |-> "start", local |-> JNull, base |-> 0, user |-> u] :
                                u \in LogUsers}]
    /\ PdfIdle

NextConc ==
    \/ \E w \in Writers : RecLoad(w)
    \/ \E w \in Writers : RecSave(w)

SpecConc == InitConc /\ [][NextConc]_vars

(***************************************************************************)
(* Specification of generate_pdf_from_markdown                             *)
(***************************************************************************)
MaxCalls == 3

Contents == {"", "# Resume analysis", "Strong match for the role."}

Titles == {"Report", "Cover Letter"}

\* WKHTMLTOPDF_PATH: None, or a path set in config.py
RendererPaths == {"", "/usr/local/bin/wkhtmltopdf"}

InitPdf ==
    /\ StoreIdle
    /\ WrapperIdle

MayCall == pdf_calls < MaxCalls

NextPdf ==
    \/ \E c \in Contents, t \in Titles, p \in RendererPaths : MayCall /\ PdfSucceeds(c, t, p)
    \/ \E c \in Contents, t \in Titles, p \in RendererPaths : MayCall /\ PdfConfigFails(c, t, p)
    \/ \E c \in Contents, t \in Titles, p \in RendererPaths : MayCall /\ PdfTempFails(c, t, p)
    \/ \E c \in Contents, t \in Titles, p \in RendererPaths : MayCall /\ PdfRenderFails(c, t, p)

SpecPdf == InitPdf /\ [][NextPdf]_vars

(***************************************************************************)
(* Specification of load_db_data and a record_interaction call on any file *)
(***************************************************************************)
InitReload ==
    /\ db_file \in DbFiles
    /\ db_pc = "idle"
    /\ db_data = JNull
    /\ WrapperIdle
    /\ clock = 0
    /\ snapshot = JNull
    /\ ret = "none"
    /\ writes = 0
    /\ last = [NoOp EXCEPT !.file = db_file]
    /\ recorded = {}
    /\ stale = FALSE
    /\ ConcIdle
    /\ PdfIdle

ReloadRecord ==
    \E u \in UserInputs :
        /\ ret = "none"
        /\ RecordInteraction(u[1], u[2], AnalysisType, JStr("jd"), JStr("ok"))

NextReload ==
    \/ Load
    \/ ReloadRecord

SpecReload == InitReload /\ [][NextReload]_vars

(***************************************************************************)
(* Specification of pdf_to_base64_images                                   *)
(***************************************************************************)
MaxPages == 3

\* what a page shows
PageImages == {"cover", "body"}

Uploads == {Upload(ps) : ps \in UNION {[1..n -> PageImages] : n \in 1..MaxPages}}

PageCounts == 0..(MaxPages + 1)

InitImg ==
    /\ StoreIdle
    /\ WrapperIdle

NextImg ==
    \/ \E k \in PageCounts : ImgNoFile(k)
    \/ \E f \in Uploads, k \in PageCounts : ImgReadFails(f, k)
    \/ \E f \in Uploads, k \in PageCounts : ImgConvertFails(f, k)
    \/ \E f \in Uploads, k \in PageCounts, i \in 0..MaxPages : ImgSaveFails(f, k, i)
    \/ \E f \in Uploads, k \in PageCounts : ImgSucceeds(f, k)

SpecImg == InitImg /\ [][NextImg]_vars

(***************************************************************************)
(* Properties of call_gemini                                               *)
(***************************************************************************)
Requests == SelectSeq(events, LAMBDA e : e.ev = "request")

SleepSecs ==
    LET s == SelectSeq(events, LAMBDA e : e.ev = "sleep")
    IN  [i \in 1..Len(s) |-> s[i].n]

Ended == pc \in {"returned", "raised"}

Recoverable == {"empty", "rate_limit", "api_error", "exception"}

AllTagged(T) == \A i \in 1..Len(events) : events[i].ev = "request" => events[i].tag \in T

LastTag == IF Requests = <<>> THEN "" ELSE Requests[Len(Requests)].tag

\* call_gemini has ended and every attempt got an empty or invalid response
AlwaysEmpty == Ended /\ max_retries >= 1 /\ AllTagged({"empty"})

\* C1 (as amended): with max_retries = N >= 1 and an empty or invalid response
\* on every attempt, call_gemini issues exactly N requests (attempts 0..N-1),
\* sleeps exactly N-1 times, for 1, 2, 4, ..., 2^(N-2) seconds, each sleep
\* between two requests, and ends by raising the wrapped failure that carries
\* N and the empty-response message; it does not return the sentinel.
C1_EmptyExhaustionRaises ==
    AlwaysEmpty =>
        /\ Len(Requests) = max_retries
        /\ \A i \in 1..max_retries : Requests[i].n = i - 1
        /\ SleepSecs = [i \in 1..(max_retries - 1) |-> 2 ^ (i - 1)]
        /\ \A i \in 1..Len(events) :
              events[i].ev = (IF i % 2 = 1 THEN "request" ELSE "sleep")
        /\ pc = "raised"
        /\ result = Exc("Exception",
                        "Failed to get response from Gemini after "
                            \o ToString(max_retries)
                            \o " attempts: Empty or invalid response received from Gemini")

\* C1 as stated: N requests, the N-1 sleeps, and the sentinel string as the end.
C1_EmptyExhaustionReturnsSentinel ==
    AlwaysEmpty =>
        /\ Len(Requests) = max_retries
        /\ SleepSecs = [i \in 1..(max_retries - 1) |-> 2 ^ (i - 1)]
        /\ pc = "returned"
        /\ result = Str("Error: Unable to process request after multiple attempts.")

\* four attempts, all empty, have ended
C1_Witness == AlwaysEmpty /\ max_retries = 4 /\ Len(Requests) = 4 /\ SleepSecs = <<1, 2, 4>>

\* C2: a request answered by the credential error (status 400 with the expired
\* marker) is the last event of the call: no request and no sleep follows it,
\* call_gemini is left by st.stop() and neither it nor the analysis operation
\* hands a text to its caller.
C2_CredentialHalts ==
    \A i \in 1..Len(events) :
        events[i].tag = "credential" =>
            /\ i = Len(events)
            /\ pc = "raised"
            /\ result.kind # "str"
            /\ op_pc # "returned"
            /\ op_result = None

\* the credential error on the third attempt, after two recoverable failures
C2_Witness ==
    /\ Len(Requests) = 3
    /\ Requests[3].tag = "credential"
    /\ Requests[1].tag \in Recoverable /\ Requests[2].tag \in Recoverable
    /\ pc = "raised"

\* C3: a request answered with non-empty text is the last event of the call,
\* and call_gemini returns exactly that text.
C3_SuccessReturnsText ==
    \A i \in 1..Len(events) :
        events[i].tag = "text" =>
            /\ i = Len(events)
            /\ pc = "returned"
            /\ result = Str(events[i].text)

\* a text on the fourth attempt, after three recoverable failures
C3_Witness ==
    /\ Len(Requests) = 4
    /\ Requests[4].tag = "text"
    /\ \A i \in 1..3 : Requests[i].tag \in Recoverable
    /\ result = Str("MATCH SCORE: 75%")

\* C4: every sleep follows a failed attempt, lasts 2^attempt seconds, is never
\* made after the final attempt (index max_retries - 1), and is followed by
\* another request.
C4_SleepOnlyBetweenAttempts ==
    \A i \in 1..Len(events) :
        events[i].ev = "sleep" =>
            /\ i > 1
            /\ events[i - 1].ev = "request"
            /\ events[i - 1].tag \in Recoverable
            /\ events[i].n = 2 ^ events[i - 1].n
            /\ events[i - 1].n < max_retries - 1
            /\ (i = Len(events) => pc = "loop" /\ attempt < max_retries)

\* call_gemini has ended after max_retries attempts that all failed recoverably
AllFailed ==
    /\ Ended
    /\ max_retries >= 1
    /\ Len(Requests) = max_retries
    /\ AllTagged(Recoverable)

\* C5 (as amended): when all max_retries attempts fail recoverably, call_gemini
\* never returns a success value; it returns the sentinel string exactly when
\* the last attempt was rate-limited (429), and otherwise raises the wrapped
\* failure.
C5_ExhaustionSentinelOrRaise ==
    AllFailed =>
        /\ pc = "returned" =>
              result = Str("Error: Unable to process request after multiple attempts.")
        /\ IF LastTag = "rate_limit"
           THEN pc = "returned"
           ELSE /\ pc = "raised"
                /\ result.kind = "exc"
                /\ result.cls = "Exception"
                /\ StartsWith(result.text, "Failed to get response from Gemini after ")

\* C5 as stated: every exhaustion by recoverable failures returns the sentinel.
C5_ExhaustionReturnsSentinel ==
    AllFailed =>
        /\ pc = "returned"
        /\ result = Str("Error: Unable to process request after multiple attempts.")

\* three attempts of three different kinds, the last rate-limited
C5_Witness ==
    /\ AllFailed
    /\ max_retries = 3
    /\ Requests[1].tag = "empty" /\ Requests[2].tag = "api_error"
    /\ Requests[3].tag = "rate_limit"
    /\ result = Str(Sentinel)

\* C6: a client/server error that is neither 429 nor the credential error, and
\* any other exception, is followed by a sleep of 2^attempt seconds and the
\* next attempt when it happens before the last attempt; on the last attempt
\* call_gemini raises the wrapped failure with max_retries and the error's
\* message in it.
C6_OtherErrorsRetriedThenWrapped ==
    \A i \in 1..Len(events) :
        (events[i].ev = "request" /\ events[i].tag \in {"api_error", "exception"}) =>
            IF events[i].n < max_retries - 1
            THEN /\ Len(events) > i
                 /\ events[i + 1].ev = "sleep"
                 /\ events[i + 1].n = 2 ^ events[i].n
                 /\ Len(events) = i + 1 => pc = "loop" /\ attempt = events[i].n + 1
                 /\ Len(events) > i + 1 =>
                        /\ events[i + 2].ev = "request"
                        /\ events[i + 2].n = events[i].n + 1
            ELSE /\ i = Len(events)
                 /\ pc = "raised"
                 /\ result = Exc("Exception",
                                 "Failed to get response from Gemini after "
                                     \o ToString(max_retries) \o " attempts: "
                                     \o events[i].text)

\* an exception retried on the first attempt, a client error wrapped on the last
C6_Witness ==
    /\ max_retries = 3
    /\ Len(Requests) = 3
    /\ Requests[1].tag = "exception"
    /\ Requests[3].tag = "api_error"
    /\ pc = "raised"
    /\ result.text =
         "Failed to get response from Gemini after 3 attempts: Invalid argument provided."

(***************************************************************************)
(* Properties of the analysis operations                                   *)
(***************************************************************************)
LastText == IF Requests = <<>> THEN "" ELSE Requests[Len(Requests)].text

\* C7 (as amended): whenever call_gemini returns or raises an Exception
\* (success, or the attempts used up by any recoverable failure), the analysis
\* operation returns a string; when call_gemini is left by st.stop() on the
\* credential error, the stop leaves the analysis operation too and no string
\* is returned.
C7_OperationsReturnUnlessStopped ==
    (caller \in Operations /\ Ended) =>
        IF LastTag = "credential"
        THEN /\ op_pc \in {"calling", "propagated"}
             /\ op_result = None
        ELSE /\ op_pc \in {"calling", "returned"}
             /\ op_pc = "calling" => (ENABLED OpReturn) \/ (ENABLED OpCatch)
             /\ op_pc = "returned" => op_result.kind = "str"

\* C7 as stated: for every outcome of the wrapper the operation returns a
\* string, and nothing propagates out of it.
C7_OperationsAlwaysReturn ==
    (caller \in Operations /\ Ended) =>
        /\ op_pc \in {"calling", "returned"}
        /\ op_pc = "returned" => op_result.kind = "str"

\* analyze_resume has turned a wrapped failure into its string
C7_Witness ==
    /\ caller = "analyze_resume"
    /\ pc = "raised"
    /\ LastTag = "exception"
    /\ op_pc = "returned"
    /\ op_result.kind = "str"

\* the operation-specific prefix of an analysis operation's error string
ErrorPrefix == "Error " \o Doing(caller) \o ": "

\* C8 (as amended): an analysis operation that returns hands back the model's
\* text when the last attempt got one; "Error <doing X>: <message>" with the
\* wrapped failure's message when call_gemini raised; and the sentinel string
\* unchanged, without the operation-specific prefix, when call_gemini returned
\* it (the last attempt was rate-limited).
C8_FailureStringForms ==
    (caller \in Operations /\ op_pc = "returned") =>
        CASE LastTag = "text" -> op_result = Str(LastText)
          [] LastTag # "text" /\ pc = "raised" ->
                /\ op_result = Str(ErrorPrefix \o result.text)
                /\ StartsWith(result.text,
                              "Failed to get response from Gemini after 5 attempts: ")
                /\ caller = "analyze_resume" =>
                      StartsWith(op_result.text, "Error analyzing resume: Failed to get")
                /\ caller = "salary_insights" =>
                      StartsWith(op_result.text, "Error generating salary insights: Failed")
          [] OTHER ->
                /\ LastTag = "rate_limit"
                /\ op_result = Str("Error: Unable to process request after multiple attempts.")
                /\ ~StartsWith(op_result.text, ErrorPrefix)

\* C8 as stated: whenever the wrapper ends without a model response the
\* operation's string starts with "Error <doing X>: ", and a string without
\* that prefix is the model's text.
C8_FailureNamesOperation ==
    (caller \in Operations /\ op_pc = "returned") =>
        IF LastTag = "text"
        THEN op_result = Str(LastText)
        ELSE StartsWith(op_result.text, ErrorPrefix)

\* get_match_score has returned the sentinel string
C8_Witness ==
    /\ caller = "get_match_score"
    /\ op_pc = "returned"
    /\ LastTag = "rate_limit"
    /\ op_result = Str(Sentinel)

(***************************************************************************)
(* Properties of load_db_data                                              *)
(***************************************************************************)
\* the file holds a JSON object with both keys "users" and "history"
HoldsBothKeys ==
    /\ db_file.state = "json"
    /\ db_file.body.t = "dict"
    /\ {"users", "history"} \subseteq DOMAIN db_file.body.v

\* C9: load_db_data never raises; it returns {"users": [], "history": []} when
\* the file is missing, cannot be read, holds malformed JSON, or holds JSON
\* that is not an object with the keys "users" and "history"; otherwise it
\* returns the stored object.
C9_LoadFailsOpen ==
    /\ db_pc # "raised"
    /\ db_pc = "loaded" =>
          IF HoldsBothKeys
          THEN db_data = db_file.body
          ELSE /\ db_data.t = "dict"
               /\ DOMAIN db_data.v = {"users", "history"}
               /\ db_data.v["users"] = JList(<<>>)
               /\ db_data.v["history"] = JList(<<>>)

\* the file {"foo": 1} has been loaded as the empty structure
C9_Witness ==
    /\ db_pc = "loaded"
    /\ db_file = FileJson(JDict([k \in {"foo"} |-> JNum(1)]))
    /\ db_data = EmptyDb

\* C10: the value load_db_data returns is an object whose "users" and
\* "history" members are both lists, whatever the file holds.
C10_LoadedCollectionsAreLists ==
    db_pc = "loaded" =>
        /\ db_data.t = "dict"
        /\ {"users", "history"} \subseteq DOMAIN db_data.v
        /\ db_data.v["users"].t = "list"
        /\ db_data.v["history"].t = "list"


(***************************************************************************)
(* Properties of record_interaction                                        *)
(***************************************************************************)
\* the file holds a store whose users are a list of records and whose
\* history is a list
ValidStore(f) ==
    /\ f.state = "json"
    /\ IsExpectedFormat(f.body)
    /\ f.body.v["users"].t = "list"
    /\ f.body.v["history"].t = "list"
    /\ \A i \in 1..Len(f.body.v["users"].v) : f.body.v["users"].v[i].t = "dict"

UsersOf(f) == f.body.v["users"].v

HistoryOf(f) == f.body.v["history"].v

EmailPresent(us, email) ==
    \E i \in 1..Len(us) : "email" \in DOMAIN us[i].v /\ us[i].v["email"] = email

Recorded == last.op = "record" /\ ValidStore(last.file)

\* C11: a record_interaction call on a valid store, run alone, stores a
\* history one entry longer, and a users list one entry longer when the email
\* is non-empty and not yet present, of the same length otherwise.
C11_RecordGrowsByOne ==
    Recorded =>
        /\ ret = "None"
        /\ ValidStore(db_file)
        /\ Len(HistoryOf(db_file)) = Len(HistoryOf(last.file)) + 1
        /\ Len(UsersOf(db_file)) =
              Len(UsersOf(last.file))
              + (IF Truthy(last.email) /\ ~EmailPresent(UsersOf(last.file), last.email)
                 THEN 1 ELSE 0)

C11_Witness ==
    /\ Recorded
    /\ EmailPresent(UsersOf(last.file), last.email)
    /\ Truthy(last.email)
    /\ Len(UsersOf(db_file)) = Len(UsersOf(last.file))
    /\ Len(HistoryOf(db_file)) = Len(HistoryOf(last.file)) + 1
    /\ Len(HistoryOf(last.file)) > 0

\* the loaded object has a list of user records and a list as history
LoadsValid(d) ==
    /\ d.v["users"].t = "list"
    /\ d.v["history"].t = "list"
    /\ \A i \in 1..Len(d.v["users"].v) : d.v["users"].v[i].t = "dict"

NewEntry == HistoryOf(db_file)[Len(HistoryOf(db_file))]

\* C18: after a record_interaction call on a store that loads as valid, the
\* stored history is the previous history, every earlier entry unchanged and
\* in the same order, followed by the one new entry as its last element.
C18_HistoryAppendOnly ==
    (last.op = "record" /\ LoadsValid(last.data)) =>
        /\ ret = "None"
        /\ db_file.state = "json"
        /\ LET before == last.data.v["history"].v
               after == HistoryOf(db_file)
           IN  /\ Len(after) = Len(before) + 1
               /\ SubSeq(after, 1, Len(before)) = before
               /\ NewEntry.t = "dict"
               /\ NewEntry.v["timestamp"] = JStr(IsoFormat(last.now))
               /\ NewEntry.v["email"] = last.email

C18_Witness ==
    /\ last.op = "record"
    /\ LoadsValid(last.data)
    /\ Len(last.data.v["history"].v) = 2
    /\ Len(HistoryOf(db_file)) = 3
    /\ NewEntry.v["email"] = JStr("asha@example.com")

\* the stored excerpt of a text, as the claim states it
StoredAs(text, excerpt, limit) ==
    /\ excerpt.t = "str" => Len(excerpt.v) <= limit + 3
    /\ IF text.t = "str" /\ Len(text.v) > limit
       THEN excerpt = JStr(SubSeq(text.v, 1, limit) \o "...")
       ELSE excerpt = text

\* C19: the entry record_interaction writes has a job_description_excerpt of
\* at most 203 and an ai_response_excerpt of at most 503 characters: a text
\* longer than 200 resp. 500 characters is stored as its first 200 resp. 500
\* characters followed by "...", any other text is stored unchanged.
C19_ExcerptsBounded ==
    (last.op = "record" /\ ret = "None") =>
        /\ StoredAs(last.jd, NewEntry.v["job_description_excerpt"], 200)
        /\ StoredAs(last.resp, NewEntry.v["ai_response_excerpt"], 500)

C19_Witness ==
    /\ last.op = "record"
    /\ ret = "None"
    /\ last.jd.t = "str"
    /\ Len(last.jd.v) = 1000
    /\ Len(NewEntry.v["job_description_excerpt"].v) = 203
    /\ NewEntry.v["ai_response_excerpt"] = last.resp
    /\ Len(last.resp.v) = 203

(***************************************************************************)
(* Properties of the log                                                   *)
(***************************************************************************)
StoredUsers == LoadDbData(db_file).val.v["users"].v

StoredEmails == {StoredUsers[i].v["email"].v : i \in 1..Len(StoredUsers)}

NoDuplicateEmails ==
    \A i, j \in 1..Len(StoredUsers) :
        StoredUsers[i].v["email"] = StoredUsers[j].v["email"] => i = j

\* C12 as stated: from an empty or missing store, after any sequence of
\* record_interaction and clean_old_history calls no two users carry the
\* same email, and users holds an email exactly when a record_interaction
\* call with that non-empty email has completed.
C12_UsersAreTheRecordedEmails ==
    /\ NoDuplicateEmails
    /\ StoredEmails = recorded

\* C12, amended: no two users carry the same email and every email in users
\* is the non-empty email of a completed record_interaction call; every such
\* email is in users as long as no clean_old_history call has saved an
\* object that was not the content of the store at the time of the call.
C12_UsersRecordedUnlessStaleSave ==
    /\ NoDuplicateEmails
    /\ StoredEmails \subseteq recorded
    /\ ~stale => recorded \subseteq StoredEmails

C12_Witness ==
    /\ ~stale
    /\ last.op = "clean"
    /\ ret = "True"
    /\ recorded = {"asha@example.com", "ben@example.com"}
    /\ StoredEmails = recorded
    /\ writes = 3

(***************************************************************************)
(* Properties of clean_old_history                                         *)
(***************************************************************************)
Cleaned == last.op = "clean"

Before == last.data.v["history"].v

After == snapshot.v["history"].v

IsRecord(e) == e.t = "dict"

\* the record has a time stamp that datetime.fromisoformat accepts
ParsedStamp(e) ==
    /\ IsRecord(e)
    /\ "timestamp" \in DOMAIN e.v
    /\ e.v["timestamp"].t = "str"
    /\ (Parsable(e.v["timestamp"].v) \/ IsAware(e.v["timestamp"].v))

StampOf(e) ==
    LET s == e.v["timestamp"].v
    IN  IF IsAware(s) THEN FromIsoFormat(SubSeq(s, 1, Len(s) - 6)) ELSE FromIsoFormat(s)

\* the entry is older than the threshold, to the half day
AgeExceeds(e) == last.now - StampOf(e) > last.threshold * HalfDaysPerDay

\* C13 as stated: clean_old_history removes exactly the entries whose parsed
\* time stamp is older than days_threshold, keeps every entry within the
\* threshold, and returns True exactly when an entry was removed.
C13_PrunesExactlyTheOld ==
    Cleaned =>
        /\ SelectSeq(After, ParsedStamp)
             = SelectSeq(Before, LAMBDA e : ParsedStamp(e) /\ ~AgeExceeds(e))
        /\ ret = "True" <=> Len(After) < Len(Before)

NothingOld == \A i \in 1..Len(Before) : ParsedStamp(Before[i]) => ~AgeExceeds(Before[i])

\* C14: clean_old_history writes the store file exactly when it removed an
\* entry; when no entry is older than the threshold it returns False and
\* leaves the file as it was.
C14_WritesIffPruned ==
    Cleaned =>
        /\ writes = 1 <=> Len(After) < Len(Before)
        /\ writes = 0 => db_file = last.file
        /\ NothingOld => (ret = "False" /\ writes = 0 /\ db_file = last.file)

C14_Witness ==
    /\ Cleaned
    /\ writes = 1
    /\ Len(Before) = 2
    /\ Len(After) = 1
    /\ db_file = FileJson(snapshot)
    /\ db_file # last.file

\* the record has no time stamp, or one that cannot be parsed as a date
Unparsed(e) == IsRecord(e) /\ ~ParsedStamp(e)

\* C15 as stated: every record whose time stamp is missing or cannot be
\* parsed, whatever the value, is in the history clean_old_history leaves.
C15_UnparsableKept ==
    Cleaned => SelectSeq(After, Unparsed) = SelectSeq(Before, Unparsed)

\* C16 as stated: after clean_old_history no entry that is not a record is
\* left in the history, in memory or in the store, whether or not another
\* entry was old.
C16_MalformedDropped ==
    Cleaned =>
        /\ \A i \in 1..Len(After) : IsRecord(After[i])
        /\ \A i \in 1..Len(HistoryOf(db_file)) : IsRecord(HistoryOf(db_file)[i])

(***************************************************************************)
(* Properties of concurrent record_interaction calls                       *)
(***************************************************************************)
BothDone == \A w \in Writers : procs[w].pc = "done"

\* one writer loaded only after the other had saved
Serial == \E w \in Writers : procs[w].base = 1

InitialHistory == LoadDbData(last.file).val.v["history"].v

\* the stored history holds the entry of writer w
Stored(w) ==
    \E i \in 1..Len(HistoryOf(db_file)) :
        HistoryOf(db_file)[i].v["analysis_type"] = WriterType(w)

\* C17: two record_interaction calls on the same store, each a load, a
\* change of its own copy and a save of the whole file: every serial
\* execution stores both new entries, and an execution in which both calls
\* load before either saves stores only one of them.
C17_SerialStoresBothOverlapLosesOne ==
    BothDone =>
        /\ SubSeq(HistoryOf(db_file), 1, Len(InitialHistory)) = InitialHistory
        /\ Serial =>
              /\ \A w \in Writers : Stored(w)
              /\ Len(HistoryOf(db_file)) = Len(InitialHistory) + 2
        /\ ~Serial =>
              /\ \E w \in Writers : Stored(w) /\ ~Stored(3 - w)
              /\ Len(HistoryOf(db_file)) = Len(InitialHistory) + 1

\* the lost update
C17_Witness ==
    /\ BothDone
    /\ Stored(2)
    /\ ~Stored(1)
    /\ writes = 2
    /\ Len(HistoryOf(db_file)) = Len(InitialHistory) + 1
    /\ Len(InitialHistory) = 1

(***************************************************************************)
(* Properties of generate_pdf_from_markdown                                *)
(***************************************************************************)
\* C20 as stated: when generate_pdf_from_markdown has returned, whether the
\* renderer succeeded or failed, no temporary file of it is left on disk.
C20_TempFileRemoved == pdf_pc = "returned" => tmp_files = 0

\* a call of generate_pdf_from_markdown ends in this step
PdfCall == pdf_calls' = pdf_calls + 1

\* the failing call reports once, returns None and raises nothing
FailsQuietly ==
    /\ pdf_errors' = pdf_errors + 1
    /\ pdf_result' = JNull
    /\ pdf_pc' = "returned"

\* the successful call returns the PDF of the page, with no report
ReturnsBytes ==
    /\ pdf_result'.t = "str"
    /\ StartsWith(pdf_result'.v, "%PDF")
    /\ Contains(pdf_result'.v, pdf_in'.title)
    /\ renders' = renders + 1
    /\ pdf_errors' = pdf_errors
    /\ pdf_pc' = "returned"

\* C21 as stated: when the renderer fails or is unavailable the call invokes
\* it exactly once, reports an error, returns None and lets no exception
\* escape; when the renderer succeeds the call returns the rendered bytes.
C21_RendererInvokedExactlyOnce ==
    [][PdfCall =>
        /\ pdf_raised' \in {"pdfkit.configuration", "pdfkit.from_string"} =>
              (renders' = renders + 1 /\ FailsQuietly)
        /\ pdf_raised' = "" => ReturnsBytes]_vars

\* C21, amended: a failing call invokes the renderer at most once, exactly
\* once when pdfkit.from_string is what raised and not at all when
\* pdfkit.configuration raised for the path set in WKHTMLTOPDF_PATH; it
\* reports one error, returns None and lets no exception escape; when the
\* renderer succeeds the call returns the rendered bytes.
C21_RendererInvokedAtMostOnce ==
    [][PdfCall =>
        /\ pdf_raised' = "pdfkit.from_string" => (renders' = renders + 1 /\ FailsQuietly)
        /\ pdf_raised' = "pdfkit.configuration" =>
              (renders' = renders /\ pdf_in'.path # "" /\ FailsQuietly)
        /\ pdf_raised' = "" => ReturnsBytes]_vars

C21_Witness ==
    /\ pdf_raised = "pdfkit.from_string"
    /\ pdf_calls = 1
    /\ renders = 1
    /\ pdf_errors = 1
    /\ pdf_result = JNull
    /\ pdf_pc = "returned"

(***************************************************************************)
(* Termination of call_gemini                                              *)
(***************************************************************************)
\* the number of times the body of `for attempt in range(max_retries)` runs
Budget == IF max_retries > 0 THEN max_retries ELSE 0

\* C22: call_gemini ends, it never issues more remote requests than
\* max_retries, and with max_retries <= 0 it issues no request, never sleeps
\* and returns the sentinel failure string.
C22_TerminatesWithinBudget ==
    /\ <>Ended
    /\ [](Len(Requests) <= Budget)
    /\ []((Ended /\ max_retries <= 0) =>
            /\ events = <<>>
            /\ pc = "returned"
            /\ result = Str(Sentinel))

C22_Witness ==
    /\ Ended
    /\ max_retries = -1
    /\ events = <<>>
    /\ result = Str(Sentinel)

(***************************************************************************)
(* clean_old_history and the object its caller holds                       *)
(***************************************************************************)
\* the number of times e occurs in h
Count(e, h) == Cardinality({i \in 1..Len(h) : h[i] = e})

FileBefore == HistoryOf(last.file)

\* the last call was clean_old_history, passed an object loaded before the
\* one record_interaction call that wrote the last entry of the file
CleanedAfterRecord ==
    /\ Cleaned
    /\ last.file.state = "json"
    /\ Len(FileBefore) = Len(Before) + 1
    /\ SubSeq(FileBefore, 1, Len(Before)) = Before

JustRecorded == FileBefore[Len(FileBefore)]

\* C23: in the sequence load_db_data, record_interaction, clean_old_history
\* of the loaded object, a prune that removes an entry saves the pruned
\* loaded object, so the file no longer holds the entry record_interaction
\* wrote; a prune that removes nothing leaves the file, and that entry, alone.
C23_CleanSavesTheCallersObject ==
    CleanedAfterRecord =>
        /\ ret = "True" =>
              /\ HistoryOf(db_file) = After
              /\ Len(After) < Len(Before)
              /\ Count(JustRecorded, HistoryOf(db_file)) < Count(JustRecorded, FileBefore)
        /\ ret = "False" =>
              /\ db_file = last.file
              /\ Count(JustRecorded, HistoryOf(db_file)) > 0

C23_Witness ==
    /\ CleanedAfterRecord
    /\ ret = "True"
    /\ Len(Before) = 1
    /\ JustRecorded.v["email"] = JStr("ben@example.com")
    /\ Count(JustRecorded, HistoryOf(db_file)) = 0
    /\ "ben@example.com" \in recorded

(***************************************************************************)
(* load_db_data and the file                                               *)
(***************************************************************************)
\* the file is there, readable, and is not a JSON object with both keys
Corrupt(f) ==
    \/ f.state = "garbage"
    \/ f.state = "json" /\ ~(f.body.t = "dict" /\ {"users", "history"} \subseteq DOMAIN f.body.v)

\* C24: load_db_data never writes the file: after it returned the empty
\* structure for a corrupt or wrongly shaped file the file is as it was, until
\* the next save; a record_interaction call that follows stores a history
\* holding only its own new entry.
C24_LoadLeavesTheFile ==
    /\ writes = 0 => db_file = last.file
    /\ (db_pc = "loaded" /\ writes = 0 /\ Corrupt(last.file)) => db_data = EmptyDb
    /\ (last.op = "record" /\ Corrupt(last.file)) =>
          /\ ret = "None"
          /\ writes = 1
          /\ db_file # last.file
          /\ Len(HistoryOf(db_file)) = 1
          /\ NewEntry.v["timestamp"] = JStr(IsoFormat(last.now))
          /\ NewEntry.v["email"] = last.email

C24_Witness ==
    /\ db_pc = "loaded"
    /\ db_data = EmptyDb
    /\ last.op = "record"
    /\ last.file = FileGarbage("not json{")
    /\ Len(HistoryOf(db_file)) = 1
    /\ NewEntry.v["email"] = JStr("asha@example.com")

(***************************************************************************)
(* What clean_old_history leaves alone                                     *)
(***************************************************************************)
\* a can be had from b by leaving entries out
RECURSIVE IsSubsequence(_, _)
IsSubsequence(a, b) ==
    IF a = <<>> THEN TRUE
    ELSE IF b = <<>> THEN FALSE
    ELSE IF Head(a) = Head(b) THEN IsSubsequence(Tail(a), Tail(b))
    ELSE IsSubsequence(a, Tail(b))

\* C25: clean_old_history never changes users, keeps the retained history
\* entries in their original relative order, and when it returns False the
\* object passed to it is exactly as it was.
C25_CleanLeavesTheRestAlone ==
    Cleaned =>
        /\ snapshot.v["users"] = last.data.v["users"]
        /\ db_file.body.v["users"] = last.file.body.v["users"]
        /\ IsSubsequence(After, Before)
        /\ HistoryOf(db_file) \in {After, FileBefore}
        /\ ret = "False" => (snapshot = last.data /\ db_file = last.file)

C25_Witness ==
    /\ Cleaned
    /\ ret = "True"
    /\ Len(Before) = 3
    /\ Len(After) = 2
    /\ After[1] # After[2]
    /\ After = <<Before[1], Before[3]>>
    /\ UsersOf(db_file) = <<UserRecord("Ben", "ben@example.com")>>

(***************************************************************************)
(* Properties of pdf_to_base64_images                                      *)
(***************************************************************************)
Min(a, b) == IF a < b THEN a ELSE b

ImgFailure == ~img_in.file.given \/ img_raised # ""

\* C26: pdf_to_base64_images returns the page images in document order,
\* min(n, pages_to_process) of them for a document of n pages, each tagged
\* image/jpeg; with no file, or when the conversion fails at any page, it
\* returns the empty list, never a partial one.
C26_PagesInOrderOrNone ==
    img_pc = "returned" =>
        LET pages == img_in.file.pages
        IN  /\ Len(img_result) <= img_in.pages
            /\ ~ImgFailure =>
                  /\ Len(img_result) = Min(Len(pages), img_in.pages)
                  /\ \A i \in 1..Len(img_result) :
                        /\ img_result[i].mime_type = "image/jpeg"
                        /\ img_result[i].data = "b64:JFIF(" \o pages[i] \o ")"
            /\ ImgFailure => (img_result = <<>> /\ img_errors = 1 /\ img_successes = 0)

C26_Witness ==
    /\ img_pc = "returned"
    /\ ~ImgFailure
    /\ img_in.file.pages = <<"cover", "body", "body">>
    /\ img_in.pages = 2
    /\ Len(img_result) = 2
    /\ img_result[1].data # img_result[2].data
====
